---- MODULE Spec2Model ----
(***************************************************************************)
(* A model of the medalist_profile pipeline: main.py (population lookup    *)
(* and resolver) and deepseek_enrichment.py (medal count, batched          *)
(* enrichment, response parser).                                           *)
(*                                                                         *)
(* Text is modelled as a sequence of lexemes (one string per JSON token or *)
(* per word of prose); a team or country name as a sequence of characters. *)
(* Python's None and a pandas missing cell are the value PyNone / NA.      *)
(***************************************************************************)
EXTENDS Integers, Sequences, FiniteSets, TLC

VARIABLES
    pc,          \* control location of the running script / function
    err,         \* the exception that ended the run ("none" while running)
    log,         \* external effects in order: HTTP requests and sleeps
    hasKey,      \* API_KEY is set (deepseek_enrichment.py:19)
    payload,     \* what the REST Countries service would return
    tries_i,     \* position in `tries` of build_population_lookup (1-based)
    lookup,      \* by_cioc, by_cca3, by_name once built
    row,         \* the row get_pop was last applied to
    popResult,   \* what get_pop returned for it
    table,       \* the caller's DataFrame: columns and rows
    df,          \* enrich_dataframe's local df (after compute_medal_count)
    i,           \* loop variable of enrich_dataframe (0-based chunk start)
    archetypes,  \* dict row index -> archetype
    hps,         \* dict row index -> health points
    out,         \* the table enrich_dataframe returned
    rawcsv,      \* the country_population column main wrote to raw_data.csv
    content,     \* the reply text handed to the response parser
    result       \* what call_deepseek did with it

vars == <<pc, err, log, hasKey, payload, tries_i, lookup, row, popResult,
          table, df, i, archetypes, hps, out, rawcsv, content, result>>

(***************************************************************************)
(* Bounds of the model.                                                    *)
(***************************************************************************)
\* longest reply text (in lexemes) the parser is checked on exhaustively
MaxContentLen == 5
\* most country objects in the REST Countries payload
MaxCountries == 2
\* most rows of the athlete table
MaxRows == 4
\* rows enrich_dataframe sends to the service: df.head(100), scaled down
HEAD_ROWS == 3
\* rows per request: BATCH_SIZE = 25, scaled down
BATCH_SIZE == 2

(***************************************************************************)
(* Python / JSON values.  Every value is a record of the same shape so     *)
(* that values of different types can be compared: t is the Python type,   *)
(* s the scalar's lexeme, e the elements of a list, m the items of a dict  *)
(* in insertion order as <<key, value>> pairs.                             *)
(***************************************************************************)
PyNone == [t |-> "None", s |-> "", e |-> <<>>, m |-> <<>>]
PyStr(tok) == [t |-> "str", s |-> tok, e |-> <<>>, m |-> <<>>]
PyInt(tok) == [t |-> "int", s |-> tok, e |-> <<>>, m |-> <<>>]
PyList(elems) == [t |-> "list", s |-> "", e |-> elems, m |-> <<>>]
PyDict(members) == [t |-> "dict", s |-> "", e |-> <<>>, m |-> members]

\* lexemes: a quoted string, an integer literal, an object key with its colon;
\* any other lexeme ("prose") is text that is not JSON
StrTokens == {"sprinter", "titan"}
IntTokens == {"1", "70", "80"}
KeyTokens == {"items:", "note:", "athlete_archetype:", "health_points:"}

\* the key a key lexeme denotes
KeyOf(tok) ==
    CASE tok = "items:" -> "items"
      [] tok = "note:" -> "note"
      [] tok = "athlete_archetype:" -> "athlete_archetype"
      [] tok = "health_points:" -> "health_points"

\* `k in d` for a dict d
DictHas(d, k) == \E n \in 1..Len(d.m) : d.m[n][1] = k

\* d[k]: json.loads keeps the last of repeated keys
DictGet(d, k) ==
    LET n == CHOOSE n \in 1..Len(d.m) :
                 /\ d.m[n][1] = k
                 /\ \A n2 \in (n+1)..Len(d.m) : d.m[n2][1] # k
    IN d.m[n][2]

(***************************************************************************)
(* json.loads on a lexeme sequence: a recursive-descent parse of one JSON  *)
(* value.  The separating commas are not lexemes of the model: the         *)
(* elements of a list and the members of an object are juxtaposed.         *)
(* A parse step returns ok, the value and the position after it.           *)
(***************************************************************************)
ParseFail == [ok |-> FALSE, v |-> PyNone, n |-> 0]

RECURSIVE ParseValue(_, _), ParseElems(_, _, _), ParseMembers(_, _, _)

ParseValue(s, p) ==
    IF p > Len(s) THEN ParseFail
    ELSE IF s[p] \in StrTokens THEN [ok |-> TRUE, v |-> PyStr(s[p]), n |-> p + 1]
    ELSE IF s[p] \in IntTokens THEN [ok |-> TRUE, v |-> PyInt(s[p]), n |-> p + 1]
    ELSE IF s[p] = "null" THEN [ok |-> TRUE, v |-> PyNone, n |-> p + 1]
    ELSE IF s[p] = "[" THEN ParseElems(s, p + 1, <<>>)
    ELSE IF s[p] = "{" THEN ParseMembers(s, p + 1, <<>>)
    ELSE ParseFail

ParseElems(s, p, acc) ==
    IF p > Len(s) THEN ParseFail
    ELSE IF s[p] = "]" THEN [ok |-> TRUE, v |-> PyList(acc), n |-> p + 1]
    ELSE LET r == ParseValue(s, p)
         IN IF r.ok THEN ParseElems(s, r.n, Append(acc, r.v)) ELSE ParseFail

ParseMembers(s, p, acc) ==
    IF p > Len(s) THEN ParseFail
    ELSE IF s[p] = "}" THEN [ok |-> TRUE, v |-> PyDict(acc), n |-> p + 1]
    ELSE IF s[p] \in KeyTokens
         THEN LET r == ParseValue(s, p + 1)
              IN IF r.ok
                 THEN ParseMembers(s, r.n, Append(acc, <<KeyOf(s[p]), r.v>>))
                 ELSE ParseFail
    ELSE ParseFail

\* try_parse: json.loads(s), or None when it raises.  The JSON text `null`
\* loads as None too.
try_parse(s) ==
    LET r == ParseValue(s, 1)
    IN IF r.ok /\ r.n = Len(s) + 1 THEN r.v ELSE PyNone

\* str.find / str.rfind of a one-lexeme needle: the first / last position
\* (1-based), and 0 where Python returns -1
find(s, tok) ==
    IF \E p \in 1..Len(s) : s[p] = tok
    THEN CHOOSE p \in 1..Len(s) : s[p] = tok /\ \A q \in 1..(p-1) : s[q] # tok
    ELSE 0

rfind(s, tok) ==
    IF \E p \in 1..Len(s) : s[p] = tok
    THEN CHOOSE p \in 1..Len(s) : s[p] = tok /\ \A q \in (p+1)..Len(s) : s[q] # tok
    ELSE 0

\* content[start : end + 1] when both delimiters are found and end > start,
\* parsed; None otherwise (steps 2 and 3 of the parser)
ParseBetween(s, open, close) ==
    LET start == find(s, open)
        end == rfind(s, close)
    IN IF start # 0 /\ end # 0 /\ end > start
       THEN try_parse(SubSeq(s, start, end))
       ELSE PyNone

\* the three steps, each taken when the value so far is no wrapper object
\* and no list
ParsedDataUntilShape(s) ==
    LET Shaped(v) == v.t = "list" \/ (v.t = "dict" /\ DictHas(v, "items"))
        d1 == try_parse(s)
        d2 == IF ~Shaped(d1) THEN ParseBetween(s, "{", "}") ELSE d1
        d3 == IF ~Shaped(d2) THEN ParseBetween(s, "[", "]") ELSE d2
    IN d3

\* the value `data` holds after the three steps
ParsedData(s) ==
    LET d1 == try_parse(s)
        d2 == IF d1 = PyNone THEN ParseBetween(s, "{", "}") ELSE d1
        d3 == IF d2 = PyNone THEN ParseBetween(s, "[", "]") ELSE d2
    IN d3

Return(v) == [kind |-> "return", v |-> v, err |-> "none"]
Raise(e) == [kind |-> "raise", v |-> PyNone, err |-> e]
NotCalled == [kind |-> "none", v |-> PyNone, err |-> "none"]

\* the response parser of call_deepseek: what the call does with the reply
\* text `s`
ParseResponse(s) ==
    LET data == ParsedData(s)
    IN IF data = PyNone THEN Raise("RuntimeError: not parseable JSON")
       ELSE IF data.t = "dict" /\ DictHas(data, "items") THEN Return(DictGet(data, "items"))
       ELSE IF data.t = "list" THEN Return(data)
       ELSE Raise("RuntimeError: unexpected schema")

(***************************************************************************)
(* main.py: strings are sequences of characters; a cell is a string or a   *)
(* non-string (a missing cell, which pandas reads as the float NaN).       *)
(***************************************************************************)
Str(s) == [isstr |-> TRUE, s |-> s]
NaN == [isstr |-> FALSE, s |-> <<>>]

\* a population: an int, or not one (None, or a non-integer in the payload)
PopInt(n) == [int |-> TRUE, n |-> n]
PopNone == [int |-> FALSE, n |-> 0]

UpperChar(c) == CASE c = "k" -> "K" [] c = "u" -> "U" [] OTHER -> c
LowerChar(c) == CASE c = "K" -> "k" [] c = "U" -> "u" [] OTHER -> c

\* str.upper, str.lower
upper(s) == [n \in 1..Len(s) |-> UpperChar(s[n])]
lower(s) == [n \in 1..Len(s) |-> LowerChar(s[n])]

\* str.strip
strip(s) ==
    LET ink == {p \in 1..Len(s) : s[p] # " "}
    IN IF ink = {} THEN <<>>
       ELSE SubSeq(s, CHOOSE p \in ink : \A q \in ink : p <= q,
                      CHOOSE p \in ink : \A q \in ink : p >= q)

\* " ".join(s.split()): the words of s, one space between two of them
RECURSIVE JoinSplit(_, _, _)
JoinSplit(s, p, acc) ==
    IF p > Len(s) THEN acc
    ELSE IF s[p] # " " THEN JoinSplit(s, p + 1, Append(acc, s[p]))
    ELSE IF /\ acc # <<>>
            /\ acc[Len(acc)] # " "
            /\ \E q \in (p+1)..Len(s) : s[q] # " "
         THEN JoinSplit(s, p + 1, Append(acc, " "))
    ELSE JoinSplit(s, p + 1, acc)

\* name.endswith(("-1", "-2", "-3", "-4"))
EndsWithSuffix(s) ==
    Len(s) >= 2 /\ s[Len(s) - 1] = "-" /\ s[Len(s)] \in {"1", "2", "3", "4"}

normalize_team(name) ==
    IF ~name.isstr THEN <<>>
    ELSE LET stripped == strip(name.s)
             cut == IF EndsWithSuffix(stripped)
                    THEN SubSeq(stripped, 1, Len(stripped) - 2)
                    ELSE stripped
         IN lower(JoinSplit(cut, 1, <<>>))

\* str(x) for a cell: the string itself, "nan" for a missing cell
str(x) == IF x.isstr THEN x.s ELSE <<"n", "a", "n">>

\* the request order with the full URL first
tries_full_first == <<"RESTCOUNTRIES_URL", "RESTCOUNTRIES_URL_FIELDS", "RESTCOUNTRIES_URL">>

\* the request order of build_population_lookup
tries == <<"RESTCOUNTRIES_URL_FIELDS", "RESTCOUNTRIES_URL", "RESTCOUNTRIES_URL_FIELDS">>

Get(url) == <<"GET", url>>
Sleep(secs) == <<"sleep", secs>>

\* d[k] = v on a dict held as a function
DictPut(d, k, v) == [x \in DOMAIN d \cup {k} |-> IF x = k THEN v ELSE d[x]]

\* by_cioc, by_cca3, by_name = {}, {}, {}
EmptyLookup == [by_cioc |-> <<>>, by_cca3 |-> <<>>, by_name |-> <<>>]

\* one pass of the loop over `data`: c is a country object whose absent or
\* null fields are held as the empty string
AddCountry(maps, c) ==
    IF ~c.population.int THEN maps
    ELSE LET cioc == upper(c.cioc)
             cca3 == upper(c.cca3)
             common == lower(strip(c.common))
             pop == c.population.n
         IN [by_cioc |-> IF cioc # <<>> THEN DictPut(maps.by_cioc, cioc, pop) ELSE maps.by_cioc,
             by_cca3 |-> IF cca3 # <<>> THEN DictPut(maps.by_cca3, cca3, pop) ELSE maps.by_cca3,
             by_name |-> IF common # <<>> THEN DictPut(maps.by_name, common, pop) ELSE maps.by_name]

RECURSIVE BuildMaps(_, _, _)
BuildMaps(data, n, maps) ==
    IF n > Len(data) THEN maps
    ELSE BuildMaps(data, n + 1, AddCountry(maps, data[n]))

\* get_pop with the ISO dict consulted before the IOC dict
get_pop_iso_first(r, maps) ==
    LET noc == upper(str(r.NOC))
    IN IF noc \in DOMAIN maps.by_cca3 THEN PopInt(maps.by_cca3[noc])
       ELSE IF noc \in DOMAIN maps.by_cioc THEN PopInt(maps.by_cioc[noc])
       ELSE LET team_key == normalize_team(r.Team)
            IN IF team_key \in DOMAIN maps.by_name THEN PopInt(maps.by_name[team_key])
               ELSE PopNone

\* get_pop of main(), a closure over the three dicts
get_pop(r, maps) ==
    LET noc == upper(str(r.NOC))
    IN IF noc \in DOMAIN maps.by_cioc THEN PopInt(maps.by_cioc[noc])
       ELSE IF noc \in DOMAIN maps.by_cca3 THEN PopInt(maps.by_cca3[noc])
       ELSE LET team_key == normalize_team(r.Team)
            IN IF team_key \in DOMAIN maps.by_name THEN PopInt(maps.by_name[team_key])
               ELSE PopNone

\* the country objects and payloads the population service is taken to return
Countries ==
    [cioc : {<<>>, <<"k">>},
     cca3 : {<<>>, <<"K">>},
     common : {<<>>, <<" ", "U">>, <<"u", " ", "u">>},
     population : {PopInt(5), PopInt(9), PopNone}]

Payloads == UNION {[1..n -> Countries] : n \in 0..MaxCountries}

\* the rows get_pop is applied to
NocValues == {Str(<<>>), Str(<<"k">>), Str(<<"K">>), Str(<<"U">>), NaN}
TeamValues ==
    {NaN, Str(<<>>), Str(<<"U">>), Str(<<"u", "-", "1">>), Str(<<"U", "-", "5">>),
     Str(<<" ", "U", " ", " ", "u", "-", "4", " ">>), Str(<<"u", " ", "-", "2">>),
     Str(<<"-", "3">>)}
PopRows == [NOC : NocValues, Team : TeamValues]

NoRow == [NOC |-> NaN, Team |-> NaN]

(***************************************************************************)
(* build_population_lookup and get_pop.  `lookup` is <<>> until the        *)
(* function returns, and <<maps>> afterwards.                              *)
(***************************************************************************)
\* an iteration of the retry loop whose fetch succeeds: break
FetchOk ==
    /\ pc = "fetch"
    /\ tries_i <= Len(tries)
    /\ log' = Append(log, Get(tries[tries_i]))
    /\ pc' = "build"
    /\ UNCHANGED <<err, hasKey, payload, tries_i, lookup, row, popResult,
                   table, df, i, archetypes, hps, out, rawcsv, content, result>>

\* an iteration whose fetch raises requests.RequestException: sleep, go on
FetchFail ==
    /\ pc = "fetch"
    /\ tries_i <= Len(tries)
    /\ log' = log \o <<Get(tries[tries_i]), Sleep("0.6")>>
    /\ tries_i' = tries_i + 1
    /\ UNCHANGED <<pc, err, hasKey, payload, lookup, row, popResult,
                   table, df, i, archetypes, hps, out, rawcsv, content, result>>

\* the loop ran out with data still None
FetchExhausted ==
    /\ pc = "fetch"
    /\ tries_i > Len(tries)
    /\ err' = "RuntimeError: Failed to fetch REST Countries"
    /\ pc' = "error"
    /\ UNCHANGED <<log, hasKey, payload, tries_i, lookup, row, popResult,
                   table, df, i, archetypes, hps, out, rawcsv, content, result>>

\* the loop over the fetched data, and the return
BuildLookup ==
    /\ pc = "build"
    /\ lookup' = <<BuildMaps(payload, 1, EmptyLookup)>>
    /\ pc' = "resolve"
    /\ UNCHANGED <<err, log, hasKey, payload, tries_i, row, popResult,
                   table, df, i, archetypes, hps, out, rawcsv, content, result>>

\* get_pop applied to one row
GetPop ==
    /\ pc = "resolve"
    /\ \E r \in PopRows :
          /\ row' = r
          /\ popResult' = get_pop(r, lookup[1])
    /\ pc' = "resolved"
    /\ UNCHANGED <<err, log, hasKey, payload, tries_i, lookup,
                   table, df, i, archetypes, hps, out, rawcsv, content, result>>

InitFetch ==
    /\ pc = "fetch" /\ err = "none" /\ log = <<>> /\ hasKey = TRUE
    /\ payload \in Payloads
    /\ tries_i = 1 /\ lookup = <<>> /\ row = NoRow /\ popResult = PopNone
    /\ table = <<>> /\ df = <<>> /\ i = 0 /\ archetypes = <<>> /\ hps = <<>>
    /\ out = <<>> /\ rawcsv = <<>> /\ content = <<>> /\ result = NotCalled

NextFetch == FetchOk \/ FetchFail \/ FetchExhausted \/ BuildLookup

\* build_population_lookup from its first line to its return or its error
SpecFetch == InitFetch /\ [][NextFetch]_vars

\* get_pop on every row of PopRows, for the dicts built from every payload
\* (the first fetch has succeeded)
InitPop ==
    /\ pc = "build" /\ err = "none" /\ log = <<Get(tries[1])>> /\ hasKey = TRUE
    /\ payload \in Payloads
    /\ tries_i = 1 /\ lookup = <<>> /\ row = NoRow /\ popResult = PopNone
    /\ table = <<>> /\ df = <<>> /\ i = 0 /\ archetypes = <<>> /\ hps = <<>>
    /\ out = <<>> /\ rawcsv = <<>> /\ content = <<>> /\ result = NotCalled

NextPop == BuildLookup \/ GetPop

SpecPop == InitPop /\ [][NextPop]_vars

\* the three tiers in the order the resolver is to consult them
Tiers(r, maps) ==
    <<[d |-> maps.by_cioc, k |-> upper(str(r.NOC))],
      [d |-> maps.by_cca3, k |-> upper(str(r.NOC))],
      [d |-> maps.by_name, k |-> normalize_team(r.Team)]>>

TierHits(r, maps) == {n \in 1..3 : Tiers(r, maps)[n].k \in DOMAIN Tiers(r, maps)[n].d}

\* C3: get_pop returns the value of the first tier (IOC code, ISO code,
\* normalized team name) that contains the record's key, and None, not 0,
\* when no tier does.
C3_FirstTierWins ==
    pc = "resolved" =>
        LET hits == TierHits(row, lookup[1])
        IN IF hits = {} THEN popResult = PopNone /\ popResult # PopInt(0)
           ELSE LET n == CHOOSE n \in hits : \A n2 \in hits : n <= n2
                    t == Tiers(row, lookup[1])[n]
                IN popResult = PopInt(t.d[t.k])

\* the code is in the IOC and in the ISO dict with different populations
C3_Witness ==
    /\ pc = "resolved"
    /\ {1, 2} \subseteq TierHits(row, lookup[1])
    /\ lookup[1].by_cioc[upper(str(row.NOC))] # lookup[1].by_cca3[upper(str(row.NOC))]
    /\ popResult = PopInt(lookup[1].by_cioc[upper(str(row.NOC))])

IsGet(e) == e[1] = "GET"
IsSleep(e) == e[1] = "sleep"

\* the URLs in the order the specification gives: primary, fallback, primary
ExpectedOrder == <<"RESTCOUNTRIES_URL_FIELDS", "RESTCOUNTRIES_URL", "RESTCOUNTRIES_URL_FIELDS">>

AttemptsInOrder ==
    LET gets == SelectSeq(log, IsGet)
    IN /\ Len(gets) <= 3
       /\ \A n \in 1..Len(gets) : gets[n] = Get(ExpectedOrder[n])

\* no request follows the one that succeeded
StopsAtFirstSuccess ==
    pc \in {"build", "resolve"} => IsGet(log[Len(log)])

FetchFailed == err = "RuntimeError: Failed to fetch REST Countries"

IsNA(c) == ~c.isstr

Gold == Str(<<"G">>)
NoTeam == Str(<<>>)

\* an integer cell, or a missing one
IntCell(n) == [int |-> TRUE, n |-> n]
NaInt == [int |-> FALSE, n |-> 0]

HasCol(frame, c) == \E n \in 1..Len(frame.cols) : frame.cols[n] = c

\* key_cols of compute_medal_count
KeyCols(frame) ==
    IF HasCol(frame, "ID") THEN <<"ID">>
    ELSE LET present == SelectSeq(<<"Name", "NOC">>, LAMBDA c : HasCol(frame, c))
         IN IF present = <<>> THEN <<"Name">> ELSE present

\* the cells of row r in the key columns
RowKey(r, key_cols) == [n \in 1..Len(key_cols) |-> r[key_cols[n]]]

\* _medal_flag: Medal.notna().astype(int)
MedalFlag(r) == IF IsNA(r.Medal) THEN 0 ELSE 1

\* groupby(key_cols)["_medal_flag"].sum(): groupby drops the rows with a
\* missing cell in a key column (dropna=True), so such a key has no group
GroupKeys(rows, key_cols) ==
    {RowKey(rows[n], key_cols) : n \in {n \in 1..Len(rows) :
        \A c \in 1..Len(key_cols) : ~IsNA(rows[n][key_cols[c]])}}

GroupSum(rows, key_cols, k) ==
    Cardinality({n \in 1..Len(rows) :
        RowKey(rows[n], key_cols) = k /\ MedalFlag(rows[n]) = 1})

\* merge(medal_counts, on=key_cols, how="left"): every row of df in its
\* place, with the sum of its group, or a missing cell when it has no group
MergedCount(rows, key_cols, r) ==
    IF RowKey(r, key_cols) \in GroupKeys(rows, key_cols)
    THEN IntCell(GroupSum(rows, key_cols, RowKey(r, key_cols)))
    ELSE NaInt

WithCount(r, c) ==
    [ID |-> r.ID, Name |-> r.Name, NOC |-> r.NOC, Team |-> r.Team,
     Medal |-> r.Medal, medal_count |-> c]

\* the frame compute_medal_count returns
compute_medal_count(frame) ==
    [cols |-> Append(frame.cols, "medal_count"),
     rows |-> [n \in 1..Len(frame.rows) |->
                 WithCount(frame.rows[n],
                           MergedCount(frame.rows, KeyCols(frame), frame.rows[n]))]]

\* the caller's frame after compute_medal_count: line 31 adds _medal_flag
\* to it, and line 46 drops the column from the merged copy only
CallerFrameAfter(frame) == [frame EXCEPT !.cols = Append(@, "_medal_flag")]

\* groupby raises KeyError when a key column is not in the frame
KeyColsMissing(frame) ==
    \E n \in 1..Len(KeyCols(frame)) : ~HasCol(frame, KeyCols(frame)[n])

Min(a, b) == IF a <= b THEN a ELSE b

\* len(idx_list): the rows of df.head(HEAD_ROWS)
HeadLen(frame) == Min(Len(frame.rows), HEAD_ROWS)

\* compute_medal_count, head, and the two empty dicts
EnrichStart ==
    /\ pc = "enrich"
    /\ ~KeyColsMissing(table)
    /\ table' = CallerFrameAfter(table)
    /\ df' = <<compute_medal_count(table)>>
    /\ i' = 0
    /\ archetypes' = <<>>
    /\ hps' = <<>>
    /\ pc' = "loop"
    /\ UNCHANGED <<err, log, hasKey, payload, tries_i, lookup, row, popResult,
                   out, rawcsv, content, result>>

\* compute_medal_count on a frame with none of ID, Name, NOC
EnrichStartKeyError ==
    /\ pc = "enrich"
    /\ KeyColsMissing(table)
    /\ table' = CallerFrameAfter(table)
    /\ err' = "KeyError: Name"
    /\ pc' = "error"
    /\ UNCHANGED <<log, hasKey, payload, tries_i, lookup, row, popResult,
                   df, i, archetypes, hps, out, rawcsv, content, result>>

(***************************************************************************)
(* The batch loop of enrich_dataframe.                                     *)
(***************************************************************************)
Post == <<"POST", "DEEPSEEK_URL">>
\* requests.post or raise_for_status raised: no response body was read
PostFailed == <<"POST failed", "DEEPSEEK_URL">>

\* batch_idx = idx_list[i : i + BATCH_SIZE], pandas indices (0-based)
BatchIdx(frame, i0) ==
    [j \in 1..(Min(i0 + BATCH_SIZE, HeadLen(frame)) - i0) |-> i0 + j - 1]

\* the integer an integer literal denotes
IntOf(tok) == CASE tok = "1" -> 1 [] tok = "70" -> 70 [] tok = "80" -> 80

\* out.get("athlete_archetype", "unclassified")
ArchetypeOf(o) ==
    IF DictHas(o, "athlete_archetype") THEN DictGet(o, "athlete_archetype")
    ELSE PyStr("unclassified")

\* int(out.get("health_points", 50)), and 50 when int() raises: on a string
\* that is no number (ValueError), on None, a list or a dict (TypeError)
HealthPointsOf(o) ==
    IF ~DictHas(o, "health_points") THEN 50
    ELSE IF DictGet(o, "health_points").t = "int" THEN IntOf(DictGet(o, "health_points").s)
    ELSE 50

\* what `for j, out in enumerate(outputs)` iterates over: the elements of
\* a list, the keys of a dict, the characters of a string (held as one
\* element: the loop never gets past the first); an int or None is not
\* iterable
Iterable(v) == v.t \in {"list", "dict", "str"}
Elements(v) ==
    CASE v.t = "list" -> v.e
      [] v.t = "dict" -> [n \in 1..Len(v.m) |-> PyStr(v.m[n][1])]
      [] v.t = "str" -> <<PyStr(v.s)>>

\* the merge loop from its j-th element on (1-based); st holds the two
\* dicts and the exception raised, if any
RECURSIVE MergeLoop(_, _, _, _)
MergeLoop(elems, j, batch_idx, st) ==
    IF j > Len(elems) THEN st
    ELSE IF j > Len(batch_idx) THEN [st EXCEPT !.err = "IndexError"]
    ELSE IF elems[j].t # "dict" THEN [st EXCEPT !.err = "AttributeError"]
    ELSE MergeLoop(elems, j + 1, batch_idx,
                   [a |-> DictPut(st.a, batch_idx[j], ArchetypeOf(elems[j])),
                    h |-> DictPut(st.h, batch_idx[j], HealthPointsOf(elems[j])),
                    err |-> "none"])

\* lines 153-159 for the value call_deepseek returned
MergeOutputs(outputs, batch_idx, a, h) ==
    IF ~Iterable(outputs) THEN [a |-> a, h |-> h, err |-> "TypeError"]
    ELSE MergeLoop(Elements(outputs), 1, batch_idx, [a |-> a, h |-> h, err |-> "none"])

\* df.loc[limited_df.index, col] = pd.Series(d): the cell of pandas index k
\* in the new column, missing where the dict has no entry and outside the
\* first HEAD_ROWS rows
AttachedArchetype(frame, a, k) ==
    IF k < HeadLen(frame) /\ k \in DOMAIN a THEN a[k] ELSE PyNone
AttachedHealthPoints(frame, h, k) ==
    IF k < HeadLen(frame) /\ k \in DOMAIN h THEN IntCell(h[k]) ELSE NaInt

\* the archetype column left as attached, without the fillna
FillArchetypeSkipped(v) == v

\* fillna("unclassified") and fillna(50).astype(int)
FillArchetype(v) == IF v = PyNone THEN PyStr("unclassified") ELSE v
FillHealthPoints(c) == IF c.int THEN c ELSE IntCell(50)

WithEnrichment(r, arch, hp) ==
    [ID |-> r.ID, Name |-> r.Name, NOC |-> r.NOC, Team |-> r.Team,
     Medal |-> r.Medal, medal_count |-> r.medal_count,
     athlete_archetype |-> arch, health_points |-> hp]

\* lines 164-171: the frame enrich_dataframe returns
EnrichedFrame(frame, a, h) ==
    [cols |-> frame.cols \o <<"athlete_archetype", "health_points">>,
     rows |-> [n \in 1..Len(frame.rows) |->
                 WithEnrichment(frame.rows[n],
                                FillArchetype(AttachedArchetype(frame, a, n - 1)),
                                FillHealthPoints(AttachedHealthPoints(frame, h, n - 1)))]]

\* the reply texts the generative service is taken to send: a list of up
\* to BATCH_SIZE + 1 results, bare, in the {"items": ...} wrapper, or in
\* the wrapper with prose around it; and replies of other shapes.  A result
\* is one of five objects, or a number.
ResultTexts ==
    {<<"{", "athlete_archetype:", "sprinter", "health_points:", "70", "}">>,
     <<"{", "athlete_archetype:", "titan", "health_points:", "80", "}">>,
     <<"{", "}">>,
     <<"{", "athlete_archetype:", "null", "health_points:", "sprinter", "}">>,
     <<"1">>}

RECURSIVE ListBodies(_)
ListBodies(n) ==
    IF n = 0 THEN {<<>>}
    ELSE ListBodies(n - 1) \cup
         {b \o r : b \in ListBodies(n - 1), r \in ResultTexts}

ListTexts == {<<"[">> \o b \o <<"]">> : b \in ListBodies(BATCH_SIZE + 1)}

ReplyTexts ==
    ListTexts
    \cup {<<"{", "items:">> \o l \o <<"}">> : l \in ListTexts}
    \cup {<<"prose", "{", "items:">> \o l \o <<"}", "prose">> : l \in ListTexts}
    \cup {<<"prose">>, <<"1">>, <<"null">>, <<"{", "note:", "1", "}">>,
          <<"{", "items:", "1", "}">>, <<"{", "items:", "{", "}", "}">>,
          <<"{", "items:", "null", "}">>, <<"{", "items:", "sprinter", "}">>,
          <<"prose", "{", "note:", "[", "]", "}">>}

\* what call_deepseek does once the response has arrived, for each reply
ReplyOutcomes == {ParseResponse(c) : c \in ReplyTexts}

\* call_deepseek: require_api_key raises
ChunkConfigError ==
    /\ pc = "loop"
    /\ i < HeadLen(df[1])
    /\ ~hasKey
    /\ result' = Raise("RuntimeError: Missing DEEPSEEK_API_KEY")
    /\ err' = "RuntimeError: Missing DEEPSEEK_API_KEY"
    /\ pc' = "error"
    /\ UNCHANGED <<log, hasKey, payload, tries_i, lookup, row, popResult,
                   table, df, i, archetypes, hps, out, rawcsv, content>>

\* a transport failure that is caught and the chunk skipped: the loop goes
\* on to the next chunk and the rows are left to the defaults
ChunkTransportErrorSwallowed ==
    /\ pc = "loop"
    /\ i < HeadLen(df[1])
    /\ hasKey
    /\ log' = log \o <<Post, PostFailed, Sleep("0.2")>>
    /\ result' = Raise("requests.RequestException")
    /\ i' = i + BATCH_SIZE
    /\ UNCHANGED <<pc, err, hasKey, payload, tries_i, lookup, row, popResult,
                   table, df, archetypes, hps, out, rawcsv, content>>

\* call_deepseek: the POST raises (network error, timeout) or
\* raise_for_status does (a status that is not 2xx)
ChunkTransportError ==
    /\ pc = "loop"
    /\ i < HeadLen(df[1])
    /\ hasKey
    /\ log' = log \o <<Post, PostFailed>>
    /\ result' = Raise("requests.RequestException")
    /\ err' = "requests.RequestException"
    /\ pc' = "error"
    /\ UNCHANGED <<hasKey, payload, tries_i, lookup, row, popResult,
                   table, df, i, archetypes, hps, out, rawcsv, content>>

\* call_deepseek: the reply is not parseable, or of an unexpected schema
ChunkReplyError ==
    /\ pc = "loop"
    /\ i < HeadLen(df[1])
    /\ hasKey
    /\ \E o \in ReplyOutcomes :
          /\ o.kind = "raise"
          /\ result' = o
          /\ err' = o.err
    /\ log' = Append(log, Post)
    /\ pc' = "error"
    /\ UNCHANGED <<hasKey, payload, tries_i, lookup, row, popResult,
                   table, df, i, archetypes, hps, out, rawcsv, content>>

\* call_deepseek returns and a line of the merge loop raises
ChunkMergeAbort ==
    /\ pc = "loop"
    /\ i < HeadLen(df[1])
    /\ hasKey
    /\ \E o \in ReplyOutcomes :
          /\ o.kind = "return"
          /\ LET st == MergeOutputs(o.v, BatchIdx(df[1], i), archetypes, hps)
             IN /\ st.err # "none"
                /\ archetypes' = st.a
                /\ hps' = st.h
                /\ err' = st.err
          /\ result' = o
    /\ log' = Append(log, Post)
    /\ pc' = "error"
    /\ UNCHANGED <<hasKey, payload, tries_i, lookup, row, popResult,
                   table, df, i, out, rawcsv, content>>

\* one pass of the batch loop: call_deepseek returns, its results are
\* merged, the loop sleeps and moves to the next chunk
ChunkMerged ==
    /\ pc = "loop"
    /\ i < HeadLen(df[1])
    /\ hasKey
    /\ \E o \in ReplyOutcomes :
          /\ o.kind = "return"
          /\ LET st == MergeOutputs(o.v, BatchIdx(df[1], i), archetypes, hps)
             IN /\ st.err = "none"
                /\ archetypes' = st.a
                /\ hps' = st.h
          /\ result' = o
    /\ log' = log \o <<Post, Sleep("0.2")>>
    /\ i' = i + BATCH_SIZE
    /\ UNCHANGED <<pc, err, hasKey, payload, tries_i, lookup, row, popResult,
                   table, df, out, rawcsv, content>>

\* the loop is over: attach the two columns, fill, return
EnrichFinish ==
    /\ pc = "loop"
    /\ i >= HeadLen(df[1])
    /\ out' = <<EnrichedFrame(df[1], archetypes, hps)>>
    /\ pc' = "done"
    /\ UNCHANGED <<err, log, hasKey, payload, tries_i, lookup, row, popResult,
                   table, df, i, archetypes, hps, rawcsv, content, result>>

(***************************************************************************)
(* enrich_dataframe on its own, and the whole script.                      *)
(***************************************************************************)
AthleteCols == <<"ID", "Name", "NOC", "Team", "Medal">>

\* a medallist and an athlete without a medal
Medallist ==
    [ID |-> Str(<<"1">>), Name |-> Str(<<"A">>), NOC |-> Str(<<"k">>),
     Team |-> Str(<<"U", "-", "1">>), Medal |-> Gold]
NonMedallist ==
    [ID |-> Str(<<"2">>), Name |-> Str(<<"B">>), NOC |-> Str(<<"U">>),
     Team |-> Str(<<"u", " ", "u">>), Medal |-> NaN]

\* the tables enrich_dataframe is run on: the two athletes in turn, either
\* one first, up to MaxRows rows
AthleteTables ==
    {[cols |-> AthleteCols,
      rows |-> [n \in 1..len |-> IF n % 2 = first THEN Medallist ELSE NonMedallist]]
     : len \in 0..MaxRows, first \in {0, 1}}

InitEnrich ==
    /\ pc = "enrich" /\ err = "none" /\ log = <<>>
    /\ hasKey \in BOOLEAN
    /\ payload = <<>>
    /\ tries_i = 1 /\ lookup = <<>> /\ row = NoRow /\ popResult = PopNone
    /\ table \in AthleteTables
    /\ df = <<>> /\ i = 0 /\ archetypes = <<>> /\ hps = <<>>
    /\ out = <<>> /\ rawcsv = <<>> /\ content = <<>> /\ result = NotCalled

NextEnrich ==
    \/ EnrichStart
    \/ ChunkConfigError
    \/ ChunkTransportError
    \/ ChunkReplyError
    \/ ChunkMergeAbort
    \/ ChunkMerged
    \/ EnrichFinish

SpecEnrich == InitEnrich /\ [][NextEnrich]_vars

\* main (lines 100-138) after build_population_lookup: get_pop on every
\* row, and the table with the new column written to raw_data.csv
ApplyGetPop ==
    /\ pc = "resolve"
    /\ rawcsv' = [n \in 1..Len(table.rows) |-> get_pop(table.rows[n], lookup[1])]
    /\ pc' = "main2"
    /\ UNCHANGED <<err, log, hasKey, payload, tries_i, lookup, row, popResult,
                   table, df, i, archetypes, hps, out, content, result>>

\* lines 145-156: deepseek_enrichment is imported (API_KEY is read), the
\* second main loads the csv again and calls enrich_dataframe
SecondMain ==
    /\ pc = "main2"
    /\ pc' = "enrich"
    /\ UNCHANGED <<err, log, hasKey, payload, tries_i, lookup, row, popResult,
                   table, df, i, archetypes, hps, out, rawcsv, content, result>>

ScriptPayloads ==
    {<<>>,
     <<[cioc |-> <<"k">>, cca3 |-> <<"K">>, common |-> <<"U">>, population |-> PopInt(5)]>>}

\* `python main.py`: line 143 runs the first main, line 163 the second
Init ==
    /\ pc = "fetch" /\ err = "none" /\ log = <<>>
    /\ hasKey \in BOOLEAN
    /\ payload \in ScriptPayloads
    /\ tries_i = 1 /\ lookup = <<>> /\ row = NoRow /\ popResult = PopNone
    /\ table \in AthleteTables
    /\ df = <<>> /\ i = 0 /\ archetypes = <<>> /\ hps = <<>>
    /\ out = <<>> /\ rawcsv = <<>> /\ content = <<>> /\ result = NotCalled

Next ==
    \/ FetchOk
    \/ FetchFail
    \/ FetchExhausted
    \/ BuildLookup
    \/ ApplyGetPop
    \/ SecondMain
    \/ EnrichStart
    \/ ChunkConfigError
    \/ ChunkTransportError
    \/ ChunkReplyError
    \/ ChunkMergeAbort
    \/ ChunkMerged
    \/ EnrichFinish

Spec == Init /\ [][Next]_vars

(***************************************************************************)
(* Claims about enrich_dataframe (SpecEnrich) and the script (Spec).       *)
(***************************************************************************)
\* the step is a pass of the batch loop over a chunk of BATCH_SIZE rows in
\* which call_deepseek returned a list of result objects
ReturnsResultList ==
    /\ pc = "loop"
    /\ i < HeadLen(df[1])
    /\ Len(BatchIdx(df[1], i)) = BATCH_SIZE
    /\ result'.kind = "return"
    /\ result'.v.t = "list"
    /\ \A j \in 1..Len(result'.v.e) : result'.v.e[j].t = "dict"

\* C1: whatever the length of the result list a chunk gets, the run goes
\* on, result j is merged into the chunk's j-th row, the chunk's rows
\* beyond the results get no entry (they take the defaults), and no row
\* outside the chunk is written.
C1_AnyResultCountMerges ==
    [][ReturnsResultList =>
        LET batch == BatchIdx(df[1], i)
            res == result'.v.e
        IN /\ err' = "none"
           /\ \A j \in 1..Len(batch) :
                 IF j <= Len(res)
                 THEN /\ batch[j] \in DOMAIN archetypes'
                      /\ archetypes'[batch[j]] = ArchetypeOf(res[j])
                      /\ hps'[batch[j]] = HealthPointsOf(res[j])
                 ELSE batch[j] \notin DOMAIN archetypes' /\ batch[j] \notin DOMAIN hps'
           /\ \A k \in DOMAIN archetypes' \ {batch[j] : j \in 1..Len(batch)} :
                 k \in DOMAIN archetypes /\ archetypes'[k] = archetypes[k]]_vars

\* C4: in the table enrich_dataframe returns every row has an archetype
\* that is not missing and an integer vitality, and every row after the
\* first HEAD_ROWS has "unclassified" and 50.
C4_AllRowsPopulated ==
    pc = "done" =>
        /\ Len(out[1].rows) = Len(table.rows)
        /\ \A n \in 1..Len(out[1].rows) :
              /\ out[1].rows[n].athlete_archetype # PyNone
              /\ out[1].rows[n].health_points.int
              /\ n > HEAD_ROWS =>
                    /\ out[1].rows[n].athlete_archetype = PyStr("unclassified")
                    /\ out[1].rows[n].health_points = IntCell(50)

\* a table longer than the prefix, with an enriched row and a row whose
\* result had a null archetype
C4_Witness ==
    /\ pc = "done"
    /\ Len(out[1].rows) > HEAD_ROWS
    /\ out[1].rows[1].athlete_archetype = PyStr("sprinter")
    /\ out[1].rows[1].health_points = IntCell(70)
    /\ 1 \in DOMAIN archetypes /\ archetypes[1] = PyNone
    /\ out[1].rows[2].athlete_archetype = PyStr("unclassified")

\* C5: a transport failure ends the run: it is the last thing that
\* happens (no retry, no later chunk, no pause), the chunk was sent once,
\* its rows have no entry, and no table is returned.
C5_TransportFailureIsFatal ==
    (\E p \in 1..Len(log) : log[p] = PostFailed) =>
        /\ log[Len(log)] = PostFailed
        /\ Len(SelectSeq(log, LAMBDA e : e = PostFailed)) = 1
        /\ Len(SelectSeq(log, LAMBDA e : e = Post)) = (i \div BATCH_SIZE) + 1
        /\ pc = "error"
        /\ err = "requests.RequestException"
        /\ out = <<>>
        /\ \A k \in i..(i + BATCH_SIZE - 1) :
              k \notin DOMAIN archetypes /\ k \notin DOMAIN hps

\* the second chunk fails after the first was merged
C5_Witness ==
    /\ err = "requests.RequestException"
    /\ i = BATCH_SIZE
    /\ 0 \in DOMAIN archetypes
    /\ log[Len(log)] = PostFailed

IsRequest(e) == e[1] \in {"GET", "POST"}

ConfigError == "RuntimeError: Missing DEEPSEEK_API_KEY"

\* C7: with the credential absent the run ends in the configuration
\* error, whatever the table, and no HTTP request precedes the error.
C7_ConfigErrorBeforeAnyRequest ==
    /\ err = ConfigError => \A p \in 1..Len(log) : ~IsRequest(log[p])
    /\ ~hasKey => pc # "done"

\* C9: the returned table has the columns of the table passed in plus the
\* two enrichment columns, the same rows in the same order with their
\* cells unchanged, and the table passed in gets no column.
C9_OnlyTwoColumnsAppended ==
    /\ table.cols = AthleteCols
    /\ pc = "done" =>
          /\ out[1].cols = AthleteCols \o <<"athlete_archetype", "health_points">>
          /\ Len(out[1].rows) = Len(table.rows)
          /\ \A n \in 1..Len(table.rows) : \A c \in 1..Len(AthleteCols) :
                out[1].rows[n][AthleteCols[c]] = table.rows[n][AthleteCols[c]]

(***************************************************************************)
(* compute_medal_count on its own: every table of up to MaxRows rows, with *)
(* and without the columns ID, Name and NOC, and with missing cells.       *)
(***************************************************************************)
Schemas ==
    {<<"ID", "Medal">>, <<"Name", "NOC", "Medal">>, <<"Name", "Medal">>,
     <<"NOC", "Medal">>, <<"Medal">>}

ColValues(cols, c, values) == IF \E n \in 1..Len(cols) : cols[n] = c THEN values ELSE {NaN}

\* the rows a table with columns `cols` may hold (a cell outside the
\* columns is held as NaN and never read)
MedalRows(cols) ==
    [ID : ColValues(cols, "ID", {Str(<<"1">>), Str(<<"2">>), NaN}),
     Name : ColValues(cols, "Name", {Str(<<"A">>), Str(<<"B">>), NaN}),
     NOC : ColValues(cols, "NOC", {Str(<<"k">>), NaN}),
     Team : {NoTeam},
     Medal : {Gold, NaN}]

MedalTables ==
    UNION {UNION {[cols : {cols}, rows : [1..n -> MedalRows(cols)]] : n \in 0..MaxRows}
           : cols \in Schemas}

InitMedal ==
    /\ pc = "enrich" /\ err = "none" /\ log = <<>> /\ hasKey = TRUE
    /\ payload = <<>>
    /\ tries_i = 1 /\ lookup = <<>> /\ row = NoRow /\ popResult = PopNone
    /\ table \in MedalTables
    /\ df = <<>> /\ i = 0 /\ archetypes = <<>> /\ hps = <<>>
    /\ out = <<>> /\ rawcsv = <<>> /\ content = <<>> /\ result = NotCalled

NextMedal == EnrichStart \/ EnrichStartKeyError

SpecMedal == InitMedal /\ [][NextMedal]_vars

\* the athlete key as the specification gives it: the ID if the table has
\* it, else name plus country code, else the name alone
AthleteKey(frame, r) ==
    IF HasCol(frame, "ID") THEN <<r.ID>>
    ELSE IF HasCol(frame, "Name") /\ HasCol(frame, "NOC") THEN <<r.Name, r.NOC>>
    ELSE <<r.Name>>

MedalsOfKey(frame, k) ==
    Cardinality({n \in 1..Len(frame.rows) :
        AthleteKey(frame, frame.rows[n]) = k /\ ~IsNA(frame.rows[n].Medal)})

\* C8: every row gets the number of rows of the full table that share its
\* athlete key and have a medal, also a row of the first-HEAD_ROWS prefix
\* whose athlete has medals beyond the prefix.
C8_CountOverFullTable ==
    (pc = "loop" /\ (HasCol(table, "ID") \/ HasCol(table, "Name"))) =>
        \A n \in 1..Len(df[1].rows) :
            df[1].rows[n].medal_count =
                IntCell(MedalsOfKey(df[1], AthleteKey(df[1], df[1].rows[n])))

(***************************************************************************)
(* The response parser on its own: every reply text of up to               *)
(* MaxContentLen lexemes is parsed.                                        *)
(***************************************************************************)
ParseAlphabet == {"{", "}", "[", "]", "items:", "null", "1", "prose"}

Texts == UNION {[1..n -> ParseAlphabet] : n \in 0..MaxContentLen}

InitParse ==
    /\ pc = "parse" /\ err = "none" /\ log = <<>> /\ hasKey = TRUE
    /\ payload = <<>>
    /\ tries_i = 1 /\ lookup = <<>> /\ row = NoRow /\ popResult = PopNone
    /\ table = <<>> /\ df = <<>> /\ i = 0 /\ archetypes = <<>> /\ hps = <<>>
    /\ out = <<>> /\ rawcsv = <<>>
    /\ content \in Texts
    /\ result = NotCalled

\* call_deepseek from the reply text on (lines 100-133)
ParseReply ==
    /\ pc = "parse"
    /\ result' = ParseResponse(content)
    /\ pc' = "parsed"
    /\ UNCHANGED <<err, log, hasKey, payload, tries_i, lookup, row, popResult,
                   table, df, i, archetypes, hps, out, rawcsv, content>>

NextParse == ParseReply

SpecParse == InitParse /\ [][NextParse]_vars

(***************************************************************************)
(* The three strategies taken one by one, as the specification names them. *)
(***************************************************************************)
StrategyValue(k, s) ==
    CASE k = 1 -> try_parse(s)
      [] k = 2 -> ParseBetween(s, "{", "}")
      [] k = 3 -> ParseBetween(s, "[", "]")

\* a wrapper object with an items list, or a bare list
Recognized(v) ==
    \/ v.t = "list"
    \/ v.t = "dict" /\ DictHas(v, "items") /\ DictGet(v, "items").t = "list"

ResultList(v) == IF v.t = "list" THEN v ELSE DictGet(v, "items")

\* the first strategy, in order, for which P holds of its value (0: none)
FirstStrategy(s, P(_)) ==
    IF \E k \in 1..3 : P(StrategyValue(k, s))
    THEN CHOOSE k \in 1..3 :
             P(StrategyValue(k, s)) /\ \A j \in 1..(k-1) : ~P(StrategyValue(j, s))
    ELSE 0

Parses(v) == v # PyNone

C6_UnrecognizedRaises ==
    (pc = "parsed" /\ FirstStrategy(content, Recognized) = 0) => result.kind = "raise"

====
